---- MODULE Spec2Model ----
(***************************************************************************)
(* Model of the remote execution orchestrator of vucar:                    *)
(* GitHubBackend.execute and the helpers it calls                          *)
(* (src/backends/github.py, src/core/security.py, src/core/video.py).      *)
(*                                                                         *)
(* One run of execute is a sequential program; every external tool call    *)
(* (git, gh, curl, gpg, exiftool) is one step whose outcome is chosen by   *)
(* the environment:                                                        *)
(*   "ok"      the tool exits 0                                            *)
(*   "err"     the tool exits non-zero (subprocess.CalledProcessError      *)
(*             where the call uses check=True)                             *)
(*   "missing" the executable is not found (FileNotFoundError)             *)
(***************************************************************************)
EXTENDS Integers, Sequences, FiniteSets, TLC

\* ------------------------------------------------------------------ bounds
\* Upper bound on the status fetches of one WATCHING phase that do not end it.
MaxPolls == 2
\* A list call can return a match at attempts 1 .. MatchBy and at the last
\* attempt (the job shows up early, at the very end, or never).
MatchBy == 2
\* Upper bound on the exceptions of the URL lookup that follows a match.
MaxUrlRaises == 1
\* Upper bound on the number of job descriptors one list call returns.
MaxListing == 2

\* --------------------------------------------------------------- byte sizes
\* A byte size n is the pair <<hi, lo>> with n = hi * 2^30 + lo, 0 <= lo < 2^30
\* (Python integers are unbounded; the pair keeps every size exact).
Base == 2^30

SizeLess(a, b) == a[1] < b[1] \/ (a[1] = b[1] /\ a[2] < b[2])

\* 2_147_483_648 and 4_294_967_296
SIZE_THRESHOLD_GIB == <<2, 0>>
SIZE_THRESHOLD_GB == <<4, 0>>

\* Payload sizes a run is started with: 1,000,000, 2^31-1, 2^31, 2^32-1,
\* 2^32, 2^32+1 and 3,000,000,000,000.
Sizes ==
    { <<0, 1000000>>, <<1, Base - 1>>, <<2, 0>>, <<3, Base - 1>>, <<4, 0>>,
      <<4, 1>>, <<2793, 1039085568>> }

\* The if / elif / else of execute that picks the upload channel.
Selector_inclusive(s) ==
    IF ~SizeLess(SIZE_THRESHOLD_GIB, s) THEN "release"
    ELSE IF ~SizeLess(SIZE_THRESHOLD_GB, s) THEN "tempsh"
    ELSE "reject"

Selector_noreject(s) ==
    IF SizeLess(s, SIZE_THRESHOLD_GIB) THEN "release" ELSE "tempsh"

Selector(s) ==
    IF SizeLess(s, SIZE_THRESHOLD_GIB) THEN "release"
    ELSE IF SizeLess(s, SIZE_THRESHOLD_GB) THEN "tempsh"
    ELSE "reject"

\* ------------------------------------------------------ the remote job table
\* Run names are short strings over {a, b, c}; a correlation token is a string
\* of two letters.  RunName[id] is the display name of job instance id.
Tokens == { <<"a", "b">>, <<"b", "a">> }

RunIds == 1 .. 4

RunName ==
    [id \in RunIds |->
        CASE id = 1 -> <<"c", "a", "b">>
          [] id = 2 -> <<"b", "a", "c">>
          [] id = 3 -> <<"a", "b", "a">>
          [] id = 4 -> <<"c", "c", "c">>]

\* jq: contains(t) on strings is the substring test.
Contains_always(name, t) == TRUE

Contains(name, t) ==
    \E i \in 1 .. (Len(name) - Len(t) + 1) :
        SubSeq(name, i, i + Len(t) - 1) = t

SelectIds_all(runs, t) ==
    runs

\* jq: .workflow_runs[] | select(.name | contains(t)) | .id
RECURSIVE SelectIds(_, _)
SelectIds(runs, t) ==
    IF runs = <<>> THEN <<>>
    ELSE IF Contains(RunName[Head(runs)], t)
         THEN <<Head(runs)>> \o SelectIds(Tail(runs), t)
         ELSE SelectIds(Tail(runs), t)

\* What one list call can return: the ids of up to MaxListing distinct job
\* instances of the workflow, most recent first.
RECURSIVE ListingsOfLen(_)
ListingsOfLen(n) ==
    IF n = 0 THEN { <<>> }
    ELSE { <<id>> \o l : id \in RunIds, l \in ListingsOfLen(n - 1) }

Distinct(l) == \A i, j \in 1 .. Len(l) : i # j => l[i] # l[j]

Listings ==
    { l \in UNION { ListingsOfLen(n) : n \in 0 .. MaxListing } : Distinct(l) }

\* ------------------------------------------------------------------- state
Outcomes == { "ok", "err", "missing" }

CallKinds ==
    { "git_tag", "git_push", "release_create", "release_upload",
      "tag_delete_local", "tag_delete", "curl_upload", "dispatch",
      "list", "url_view", "status", "download", "decrypt", "restore",
      "release_delete", "sleep_find", "sleep_poll", "unlink_target" }

Phases == { "prepare", "upload", "trigger", "monitor", "download", "decrypt", "restore" }

VARIABLES
    pc,             \* position of the run inside execute
    run_uuid,       \* execute: run_uuid (correlation token)
    file_size,      \* size of the encrypted payload
    channel,        \* branch taken by the upload selector
    release_tag,    \* execute: release_tag ("none" is None)
    upload_url,     \* execute: upload_url  ("none" is None)
    run_id,         \* _monitor_workflow_run: run_id (0 is None)
    attempt,        \* _monitor_workflow_run: attempt of the locating loop
    state,          \* state of the locator / poller
    listing,        \* job instances returned by the list call that matched
    urlRaises,      \* exceptions of the URL lookup so far
    lastStatus,     \* result of the last status fetch
    transients,     \* transient status-fetch errors since WATCHING began
    listKinds,      \* kinds of the unsuccessful list calls made while no
                    \* job instance is bound
    dl_attempt,     \* _download_artifact: attempts made so far
    delay,          \* _download_artifact: delay
    dl_slept,       \* _download_artifact: the waits made, in order
    dlFile,         \* a file exists at the download target path
    decFile,        \* the decrypted output file exists
    calls,          \* number of external calls made, per kind
    phaseRes,       \* result reported by each phase
    remoteTag,      \* the run has pushed a tag to the remote
    remoteRelease,  \* the run has created a remote release
    encFile,        \* the local encrypted payload exists
    failure,        \* why the run halted
    retval,         \* value execute is about to return
    dispatched,     \* the `gh workflow run` commands sent, in order
    restored,       \* the calls of restore_metadata made, in order
    result,         \* what the caller of execute observes
    \* Two invocations of execute at once against one repository:
    c_pc,           \* position of each invocation
    c_run_id,       \* _monitor_workflow_run: run_id of each invocation
    c_listing,      \* the listing in which each invocation found its match
    c_polled,       \* ids each invocation asked the status of
    c_downloaded,   \* ids each invocation downloaded the artifact of
    c_deleted,      \* releases and tags each invocation asked to delete
    backendRuns,    \* job instances of the workflow, most recent first
    backendTags,    \* tags present in the remote repository
    backendReleases, \* releases present in the remote repository
    \* One polling loop of _monitor_workflow_run seen snapshot by snapshot:
    w_data,         \* data: the status snapshot parsed in the last iteration
    w_label,        \* current_step_name computed in the last iteration
    w_state,        \* where the last iteration left the poller
    w_polls,        \* iterations made so far, counted up to MaxPolls + 1
    \* The locating loop of one invocation against a backend on which other
    \* job instances of the same workflow are dispatched:
    l_attempt,      \* attempt of the locating loop
    l_run_id,       \* run_id
    l_state,        \* LOCATING, WATCHING or LOCATE_TIMEOUT
    l_present,      \* the job instance of this invocation exists
    l_newer,        \* job instances dispatched after it
    l_last,         \* outcome of the last list call and URL lookup
    l_lists         \* list calls made so far

vars ==
    << pc, run_uuid, file_size, channel, release_tag, upload_url, run_id,
       attempt, state, listing, urlRaises, lastStatus, transients,
       listKinds, dl_attempt, delay, dl_slept, dlFile, decFile, calls, phaseRes,
       remoteTag, remoteRelease, encFile,
       failure, retval, dispatched, restored, result,
       c_pc, c_run_id, c_listing, c_polled, c_downloaded, c_deleted,
       backendRuns, backendTags, backendReleases,
       w_data, w_label, w_state, w_polls,
       l_attempt, l_run_id, l_state, l_present, l_newer, l_last, l_lists >>

\* The variables of the single invocation.
soloVars ==
    << pc, run_uuid, file_size, channel, release_tag, upload_url, run_id,
       attempt, state, listing, urlRaises, lastStatus, transients,
       listKinds, dl_attempt, delay, dl_slept, dlFile, decFile, calls, phaseRes,
       remoteTag, remoteRelease, encFile,
       failure, retval, dispatched, restored, result >>

\* The variables of the two invocations at once.
concVars ==
    << c_pc, c_run_id, c_listing, c_polled, c_downloaded, c_deleted,
       backendRuns, backendTags, backendReleases >>

\* The variables of the polling loop seen snapshot by snapshot.
watchVars == << w_data, w_label, w_state, w_polls >>

\* The variables of the locating loop against a busy backend.
locateVars ==
    << l_attempt, l_run_id, l_state, l_present, l_newer, l_last, l_lists >>

Runs == { 1, 2 }

NoData ==
    [kind |-> "none", status |-> "none", conclusion |-> "none",
     jobs |-> "absent", steps |-> "absent", active |-> FALSE]

NoStatus == [kind |-> "none", status |-> "none", conclusion |-> "none"]

Init ==
    /\ pc = "prepare"
    /\ run_uuid \in Tokens
    /\ file_size \in Sizes
    /\ channel = "none"
    /\ release_tag = "none"
    /\ upload_url = "none"
    /\ run_id = 0
    /\ attempt = 0
    /\ state = "IDLE"
    /\ listing = <<>>
    /\ urlRaises = 0
    /\ lastStatus = NoStatus
    /\ transients = 0
    /\ listKinds = {}
    /\ dl_attempt = 0
    /\ delay = 5
    /\ dl_slept = <<>>
    /\ dlFile = FALSE
    /\ decFile = FALSE
    /\ calls = [k \in CallKinds |-> 0]
    /\ phaseRes = [p \in Phases |-> "none"]
    /\ remoteTag = FALSE
    /\ remoteRelease = FALSE
    /\ encFile = FALSE
    /\ failure = "none"
    /\ retval = "None"
    /\ dispatched = <<>>
    /\ restored = <<>>
    /\ result = "pending"
    /\ c_pc = [r \in Runs |-> "upload"]
    /\ c_run_id = [r \in Runs |-> 0]
    /\ c_listing = [r \in Runs |-> <<>>]
    /\ c_polled = [r \in Runs |-> {}]
    /\ c_downloaded = [r \in Runs |-> {}]
    /\ c_deleted = [r \in Runs |-> {}]
    /\ backendRuns = <<>>
    /\ backendTags = {}
    /\ backendReleases = {}
    /\ w_data = NoData
    /\ w_label = "none"
    /\ w_state = "WATCHING"
    /\ w_polls = 0
    /\ l_attempt = 1
    /\ l_run_id = 0
    /\ l_state = "LOCATING"
    /\ l_present = FALSE
    /\ l_newer = 0
    /\ l_last = [list |-> "none", url |-> "none"]
    /\ l_lists = 0

Called(ks) ==
    calls' = [k \in CallKinds |-> IF k \in ks THEN calls[k] + 1 ELSE calls[k]]

Phase(p, r) == phaseRes' = [phaseRes EXCEPT ![p] = r]

\* `return None` inside the try block of execute: control passes to finally.
Halt(why) ==
    /\ failure' = why
    /\ retval' = "None"
    /\ pc' = "finally"

\* ------------------------------------------------ phase 1: prepare (security.py)
\* sanitize_and_encrypt_video: True when exiftool and gpg both exit 0; every
\* failure, a missing tool included, is reported as False.  A failed run gives
\* no guarantee about a partial output file.
SanitizeAndEncrypt ==
    /\ pc = "prepare"
    /\ \E o \in Outcomes :
        IF o = "ok"
        THEN /\ encFile' = TRUE
             /\ Phase("prepare", "ok")
             /\ pc' = "size"
             /\ UNCHANGED << failure, retval >>
        ELSE /\ encFile' \in BOOLEAN
             /\ Phase("prepare", "fail")
             /\ Halt("PreparationFailed")
    /\ UNCHANGED << run_uuid, file_size, channel, release_tag, upload_url,
                    run_id, attempt, state, listing, urlRaises, lastStatus, transients,
                    listKinds, dl_attempt, delay, dl_slept, dlFile, decFile,
                    calls, remoteTag, remoteRelease,
                    dispatched, concVars, watchVars, locateVars,
                 restored, restored, result >>

\* ------------------------------------------- phase 2: size analysis and upload
\* get_file_size and the branch on the two thresholds.
SelectUpload ==
    /\ pc = "size"
    /\ channel' = Selector(file_size)
    /\ CASE channel' = "release" ->
                /\ pc' = "git_tag"
                /\ UNCHANGED << failure, retval, phaseRes >>
         [] channel' = "tempsh" ->
                /\ pc' = "curl_upload"
                /\ UNCHANGED << failure, retval, phaseRes >>
         [] OTHER ->
                /\ Halt("PayloadTooLarge")
                /\ Phase("upload", "fail")
    /\ UNCHANGED << run_uuid, file_size, release_tag, upload_url, run_id,
                    attempt, state, listing, urlRaises, lastStatus, transients,
                    listKinds, dl_attempt, delay, dl_slept, dlFile, decFile,
                    calls, remoteTag, remoteRelease,
                    encFile, dispatched, concVars, watchVars, locateVars,
                 restored, restored, result >>

\* `if not release_tag and not upload_url: return None` after the upload.
AfterUpload_nocheck(tag, url) == "trigger"

AfterUpload_fallback(tag, url) ==
    IF tag = "none" /\ url = "none"
    THEN IF pc = "curl_upload" THEN "finally" ELSE "curl_upload"
    ELSE "trigger"

AfterUpload(tag, url) ==
    IF tag = "none" /\ url = "none" THEN "finally" ELSE "trigger"

\* The upload helper returned (tag, url) to execute.
UploadReturns(tag, url) ==
    /\ release_tag' = tag
    /\ upload_url' = url
    /\ pc' = AfterUpload(tag, url)
    /\ IF tag = "none" /\ url = "none"
       THEN /\ failure' = "UploadFailed"
            /\ Phase("upload", "fail")
       ELSE /\ failure' = failure
            /\ Phase("upload", "ok")
    /\ retval' = "None"

\* An exception that leaves a helper is caught by `except Exception` of
\* execute, which returns None.
Raises(p) ==
    /\ Phase(p, "fail")
    /\ Halt("Exception")

UploadFrame ==
    UNCHANGED << run_uuid, file_size, channel, run_id, attempt, state,
                 listing, urlRaises, lastStatus, transients, listKinds, dl_attempt,
                 delay, dl_slept, dlFile, decFile, encFile, dispatched,
                 concVars, watchVars, locateVars,
                 restored, restored, result >>

\* One step of the try block of _upload_via_github_release: on exit 0 go on
\* to `next`, on CalledProcessError enter the handler that removes the tag,
\* on FileNotFoundError return None.
ReleaseStep(here, kind, next) ==
    /\ pc = here
    /\ Called({ kind })
    /\ \E o \in Outcomes :
        CASE o = "ok" ->
                /\ remoteTag' = (remoteTag \/ kind = "git_push")
                /\ remoteRelease' = (remoteRelease \/ kind = "release_create")
                /\ IF next = "return"
                   THEN UploadReturns("tag", "none")
                   ELSE /\ pc' = next
                        /\ UNCHANGED << release_tag, upload_url, failure,
                                        retval, phaseRes >>
          [] o = "err" ->
                /\ pc' = "tag_delete_local"
                /\ UNCHANGED << release_tag, upload_url, failure, retval,
                                phaseRes, remoteTag, remoteRelease >>
          [] o = "missing" ->
                /\ UploadReturns("none", "none")
                /\ UNCHANGED << remoteTag, remoteRelease >>
    /\ UploadFrame

GitTag == ReleaseStep("git_tag", "git_tag", "git_push")

GitPushTag == ReleaseStep("git_push", "git_push", "release_create")

GhReleaseCreate == ReleaseStep("release_create", "release_create", "release_upload")

GhReleaseUpload == ReleaseStep("release_upload", "release_upload", "return")

\* Handler of CalledProcessError: `git tag -d` without check=True.
GitTagDeleteLocal ==
    /\ pc = "tag_delete_local"
    /\ Called({ "tag_delete_local" })
    /\ \E o \in Outcomes :
        IF o = "missing"
        THEN Raises("upload")
        ELSE /\ pc' = "tag_delete_failed_upload"
             /\ UNCHANGED << failure, retval, phaseRes >>
    /\ UNCHANGED << release_tag, upload_url, remoteTag, remoteRelease >>
    /\ UploadFrame

\* Handler of CalledProcessError: `git push --delete origin tag` without
\* check=True, then return None.
GitPushDeleteFailedUpload ==
    /\ pc = "tag_delete_failed_upload"
    /\ Called({ "tag_delete" })
    /\ \E o \in Outcomes :
        IF o = "missing"
        THEN /\ Raises("upload")
             /\ UNCHANGED << release_tag, upload_url >>
        ELSE UploadReturns("none", "none")
    /\ UNCHANGED << remoteTag, remoteRelease >>
    /\ UploadFrame

\* _upload_via_tempsh: curl; the URL is accepted only if it starts with http.
CurlUpload ==
    /\ pc = "curl_upload"
    /\ Called({ "curl_upload" })
    /\ \E o \in Outcomes \cup { "ok_not_url" } :
        IF o = "ok"
        THEN UploadReturns("none", "url")
        ELSE UploadReturns("none", "none")
    /\ UNCHANGED << remoteTag, remoteRelease >>
    /\ UploadFrame

\* --------------------------------------------------- phase 3: trigger workflow
\* `if not success: return None` after _trigger_workflow_run.
AfterTrigger_ignored(success) == "locate"

AfterTrigger_retry(success) == IF success THEN "locate" ELSE "trigger"

AfterTrigger(success) == IF success THEN "locate" ELSE "finally"

\* The dispatch is sent only when a release tag or an upload URL is given;
\* any error of the single `gh workflow run` call is reported as False.
TriggerDispatches_always(tag, url) == TRUE

TriggerDispatches(tag, url) == tag # "none" \/ url # "none"

\* secrets.token_hex(8) of execute: the name of the output artifact.
output_filename_base == "job"

\* json.dumps({"command": command}).
ffmpeg_options_json == [command |-> "cmd"]

\* The -f fields of the command: the three fixed ones, then release_tag if
\* a tag is given, else upload_url if a URL is given.
TriggerCmd_nourl(uuid, tag, url) ==
    [run_uuid |-> uuid,
     ffmpeg_options |-> ffmpeg_options_json,
     output_filename_base |-> output_filename_base,
     release_tag |-> tag,
     upload_url |-> "none"]

TriggerCmd(uuid, tag, url) ==
    [run_uuid |-> uuid,
     ffmpeg_options |-> ffmpeg_options_json,
     output_filename_base |-> output_filename_base,
     release_tag |-> tag,
     upload_url |-> IF tag # "none" THEN "none" ELSE url]

TriggerWorkflowRun ==
    /\ pc = "trigger"
    /\ IF TriggerDispatches(release_tag, upload_url)
       THEN /\ Called({ "dispatch" })
            /\ dispatched' =
                   Append(dispatched,
                          TriggerCmd(run_uuid, release_tag, upload_url))
            /\ \E o \in Outcomes :
                /\ pc' = AfterTrigger(o = "ok")
                /\ IF o = "ok"
                   THEN /\ Phase("trigger", "ok")
                        /\ UNCHANGED << failure, retval >>
                   ELSE /\ Phase("trigger", "fail")
                        /\ failure' = "TriggerRejected"
                        /\ retval' = "None"
       ELSE /\ pc' = AfterTrigger(FALSE)
            /\ Phase("trigger", "fail")
            /\ failure' = "TriggerRejected"
            /\ retval' = "None"
            /\ UNCHANGED << calls, dispatched >>
    /\ attempt' = IF pc' = "locate" THEN 1 ELSE attempt
    /\ state' = IF pc' = "locate" THEN "LOCATING" ELSE state
    /\ UNCHANGED << run_uuid, file_size, channel, release_tag, upload_url,
                    run_id, listing, urlRaises, lastStatus, transients, listKinds,
                    dl_attempt, delay, dl_slept, dlFile, decFile, remoteTag,
                    remoteRelease, encFile, concVars, watchVars, locateVars,
                 restored, restored, result >>

\* ------------------------------------------- phase 4: locate, then watch
max_find_attempts == 24

\* for attempt in range(1, max_find_attempts + 1): is there a next iteration?
HasNextAttempt_short(a) == a < max_find_attempts - 1

HasNextAttempt(a) == a < max_find_attempts

\* End of one iteration of the locating loop that did not break
\* (time.sleep(find_interval) has been called).
NextAttempt_double ==
    IF HasNextAttempt(attempt + 1)
    THEN /\ attempt' = attempt + 2
         /\ pc' = "locate"
    ELSE /\ attempt' = attempt
         /\ pc' = "locate_exit"

NextAttempt ==
    IF HasNextAttempt(attempt)
    THEN /\ attempt' = attempt + 1
         /\ pc' = "locate"
    ELSE /\ attempt' = attempt
         /\ pc' = "locate_exit"

MonitorFrame ==
    UNCHANGED << run_uuid, file_size, channel, release_tag, upload_url,
                 dl_attempt, delay, dl_slept, decFile, remoteTag,
                 remoteRelease, encFile, dispatched, concVars, watchVars, locateVars,
                 restored, restored, result >>

\* One `gh api .../runs --jq ...` call.  rc is the exit status, runs the job
\* instances of the page the backend answered with; "raise" is any exception
\* of subprocess.run, absorbed by `except Exception`.
ListRuns ==
    /\ pc = "locate"
    /\ \E o \in { "ok", "err", "raise" }, runs \in Listings :
        LET stdout == SelectIds(runs, run_uuid) IN
        /\ IF o = "ok" /\ stdout # <<>>
           THEN /\ attempt <= MatchBy \/ attempt = max_find_attempts
                /\ listing' = runs
                /\ run_id' = Head(stdout)
                /\ pc' = "url_view"
                /\ Called({ "list" })
                /\ listKinds' = {}
                /\ UNCHANGED attempt
           ELSE /\ NextAttempt
                /\ Called({ "list", "sleep_find" })
                /\ run_id' = run_id
                /\ listing' = listing
                /\ listKinds' =
                       IF run_id = 0
                       THEN listKinds \cup { IF o = "ok" THEN "empty" ELSE o }
                       ELSE listKinds
    /\ UNCHANGED << state, urlRaises, lastStatus, transients, phaseRes,
                    failure, retval, dlFile >>
    /\ MonitorFrame

\* `gh run view <id> --json url` through check_output: exit 0 and
\* CalledProcessError both reach `break`; any other exception is absorbed by
\* the `except Exception` of the loop body, which sleeps and lets the loop go on.
UrlView ==
    /\ pc = "url_view"
    /\ \E o \in Outcomes :
        IF o = "missing"
        THEN /\ urlRaises < MaxUrlRaises
             /\ urlRaises' = urlRaises + 1
             /\ NextAttempt
             /\ Called({ "url_view", "sleep_find" })
        ELSE /\ pc' = "locate_exit"
             /\ attempt' = attempt
             /\ urlRaises' = urlRaises
             /\ Called({ "url_view" })
    /\ UNCHANGED << run_id, state, listing, lastStatus, transients, listKinds,
                    phaseRes, failure, retval, dlFile >>
    /\ MonitorFrame

\* `if not run_id: return None` after the loop, and the
\* `if not run_id: return None` of execute.
LocateExit ==
    /\ pc = "locate_exit"
    /\ IF run_id = 0
       THEN /\ state' = "LOCATE_TIMEOUT"
            /\ Phase("monitor", "fail")
            /\ Halt("LocateTimeout")
       ELSE /\ state' = "WATCHING"
            /\ pc' = "watch"
            /\ UNCHANGED << phaseRes, failure, retval >>
    /\ UNCHANGED << run_id, attempt, listing, urlRaises, lastStatus,
                    transients, listKinds, calls, dlFile >>
    /\ MonitorFrame

\* What a status fetch can produce: a CalledProcessError, output that is not
\* JSON, a missing gh, or a snapshot {status, conclusion}.
Statuses == { "queued", "in_progress", "completed" }

Conclusions == { "null", "success", "failure" }

StatusResults ==
    { [kind |-> k, status |-> "none", conclusion |-> "none"] :
          k \in { "err", "badjson", "missing" } }
    \cup
    { [kind |-> "ok", status |-> s, conclusion |-> c] :
          s \in Statuses, c \in Conclusions }

\* Body of `while True`: where one status fetch leaves the poller.
PollTransition_budget(res) ==
    CASE res.kind \in { "err", "badjson" } -> "FAILED_REMOTE"
      [] res.kind = "missing" -> "RAISE"
      [] res.status = "completed" /\ res.conclusion = "success" -> "SUCCEEDED"
      [] res.status = "completed" -> "FAILED_REMOTE"
      [] OTHER -> "WATCHING"

PollTransition_nullok(res) ==
    CASE res.kind \in { "err", "badjson" } -> "WATCHING"
      [] res.kind = "missing" -> "RAISE"
      [] res.status = "completed" /\ res.conclusion # "failure" -> "SUCCEEDED"
      [] res.status = "completed" -> "FAILED_REMOTE"
      [] OTHER -> "WATCHING"

PollTransition_stuck(res) ==
    CASE res.kind \in { "err", "badjson" } -> "WATCHING"
      [] res.kind = "missing" -> "RAISE"
      [] res.status = "completed" /\ res.conclusion = "success" -> "SUCCEEDED"
      [] OTHER -> "WATCHING"

PollTransition(res) ==
    CASE res.kind \in { "err", "badjson" } -> "WATCHING"
      [] res.kind = "missing" -> "RAISE"
      [] res.status = "completed" /\ res.conclusion = "success" -> "SUCCEEDED"
      [] res.status = "completed" -> "FAILED_REMOTE"
      [] OTHER -> "WATCHING"

StatusFetch ==
    /\ pc = "watch"
    /\ \E res \in StatusResults :
        LET to == PollTransition(res) IN
        /\ to = "WATCHING" => calls["status"] < MaxPolls
        /\ lastStatus' = res
        /\ transients' = IF res.kind \in { "err", "badjson" }
                         THEN transients + 1 ELSE transients
        /\ Called(IF to = "WATCHING" THEN { "status", "sleep_poll" }
                  ELSE { "status" })
        /\ CASE to = "WATCHING" ->
                    /\ UNCHANGED << pc, state, phaseRes, failure, retval,
                                    dlFile >>
             [] to = "SUCCEEDED" ->
                    \* run_id is returned and _download_artifact starts; a
                    \* file may already lie at its target path.
                    /\ state' = to
                    /\ Phase("monitor", "ok")
                    /\ pc' = "download"
                    /\ dlFile' \in BOOLEAN
                    /\ UNCHANGED << failure, retval >>
             [] to = "FAILED_REMOTE" ->
                    /\ state' = to
                    /\ Phase("monitor", "fail")
                    /\ Halt("RemoteJobFailed")
                    /\ UNCHANGED dlFile
             [] OTHER ->
                    /\ state' = state
                    /\ Raises("monitor")
                    /\ UNCHANGED dlFile
    /\ UNCHANGED << run_id, attempt, listing, urlRaises, listKinds >>
    /\ MonitorFrame

\* ------------------------------------------------- phase 5: download artifact
max_retries == 3

TailFrame ==
    UNCHANGED << run_uuid, file_size, channel, release_tag, upload_url,
                 run_id, attempt, state, listing, urlRaises, lastStatus, transients,
                 listKinds, remoteTag, remoteRelease, dispatched,
                 concVars, watchVars, locateVars >>

\* `if attempt < max_retries:` in the handler of CalledProcessError.
RetryAgain_always(a) == a <= max_retries

RetryAgain(a) == a < max_retries

\* delay *= 2
NextDelay_fixed(d) == d

NextDelay(d) == d * 2

\* The unlink of the target is the first statement of every iteration.
UnlinksBefore_firstonly(a) == a = 1

UnlinksBefore(a) == TRUE

\* Start of one iteration of the retry loop of _download_artifact:
\* (download_dir / final_encrypted_file_name).unlink(missing_ok=True).
UnlinkTarget ==
    /\ pc = "download"
    /\ dl_attempt' = dl_attempt + 1
    /\ IF UnlinksBefore(dl_attempt')
       THEN /\ dlFile' = FALSE
            /\ Called({ "unlink_target" })
       ELSE UNCHANGED << dlFile, calls >>
    /\ pc' = "download_call"
    /\ UNCHANGED << delay, dl_slept, decFile, encFile, restored, result, phaseRes,
                    failure, retval >>
    /\ TailFrame

\* Rest of the iteration: run `gh run download`; on CalledProcessError sleep
\* `delay` and double it while attempts remain, else return None; a missing
\* gh returns None at once.
DownloadArtifact ==
    /\ pc = "download_call"
    /\ Called({ "download" })
    /\ \E o \in Outcomes :
        CASE o = "ok" ->
                /\ dlFile' = TRUE
                /\ Phase("download", "ok")
                /\ pc' = "decrypt"
                /\ UNCHANGED << delay, dl_slept, failure, retval >>
          [] o = "err" /\ RetryAgain(dl_attempt) ->
                /\ dlFile' \in BOOLEAN
                /\ dl_slept' = Append(dl_slept, delay)
                /\ delay' = NextDelay(delay)
                /\ pc' = "download"
                /\ UNCHANGED << phaseRes, failure, retval >>
          [] o = "err" ->
                /\ dlFile' \in BOOLEAN
                /\ Phase("download", "fail")
                /\ Halt("ArtifactUnavailable")
                /\ UNCHANGED << delay, dl_slept >>
          [] OTHER ->
                /\ dlFile' = dlFile
                /\ Phase("download", "fail")
                /\ Halt("ToolMissing")
                /\ UNCHANGED << delay, dl_slept >>
    /\ UNCHANGED << dl_attempt, decFile, encFile, restored, result >>
    /\ TailFrame

\* ------------------------------------------- decrypt and restore metadata
\* decrypt_file (security.py): the path on exit 0, None on any failure; the
\* downloaded file is unlinked in every case.
DecryptFile ==
    /\ pc = "decrypt"
    /\ Called({ "decrypt" })
    /\ dlFile' = FALSE
    /\ \E o \in Outcomes :
        IF o = "ok"
        THEN /\ decFile' = TRUE
             /\ Phase("decrypt", "ok")
             /\ pc' = "restore"
             /\ UNCHANGED << failure, retval >>
        ELSE /\ decFile' = FALSE
             /\ Phase("decrypt", "fail")
             /\ Halt("DecryptionFailed")
    /\ UNCHANGED << dl_attempt, delay, dl_slept, encFile, restored, result >>
    /\ TailFrame

\* restore_metadata (video.py) returns a boolean that execute ignores;
\* execute then returns decrypted_file_path.
RestoreArgs ==
    [source_path |-> "video_path", target_path |-> "decrypted_file_path"]

RestoreMetadata ==
    /\ pc = "restore"
    /\ Called({ "restore" })
    /\ restored' = Append(restored, RestoreArgs)
    /\ \E o \in Outcomes :
        Phase("restore", IF o = "ok" THEN "ok" ELSE "fail")
    /\ retval' = "path"
    /\ pc' = "finally"
    /\ UNCHANGED << dl_attempt, delay, dl_slept, dlFile, decFile, encFile,
                    failure, result >>
    /\ TailFrame

\* ----------------------------------------------------- finally: cleanup phase
FinallyFrame ==
    UNCHANGED << run_uuid, file_size, channel, release_tag, upload_url,
                 run_id, attempt, state, listing, urlRaises, lastStatus, transients,
                 listKinds, dl_attempt, delay, dl_slept, dlFile, decFile,
                 phaseRes, remoteTag, remoteRelease, failure, retval,
                 dispatched, restored, concVars,
                 watchVars, locateVars >>

\* `if release_tag:` guards _cleanup_github_release.
NeedsCleanup_never(tag) == FALSE

NeedsCleanup_always(tag) == TRUE

NeedsCleanup_uploaded(tag) == phaseRes["upload"] = "ok"

NeedsCleanup(tag) == tag # "none"

\* if encrypted_file_path.exists(): unlink()
UnlinkEncrypted_onsuccess ==
    /\ pc = "finally"
    /\ encFile' = IF failure = "none" THEN FALSE ELSE encFile
    /\ pc' = IF NeedsCleanup(release_tag) THEN "release_delete" ELSE "return"
    /\ UNCHANGED << calls, result >>
    /\ FinallyFrame

UnlinkEncrypted ==
    /\ pc = "finally"
    /\ encFile' = FALSE
    /\ pc' = IF NeedsCleanup(release_tag) THEN "release_delete" ELSE "return"
    /\ UNCHANGED << calls, result >>
    /\ FinallyFrame

\* _cleanup_github_release, first try block: `gh release delete`.  Only
\* CalledProcessError is handled; FileNotFoundError leaves the function, the
\* finally block and execute.
ReleaseDelete ==
    /\ pc = "release_delete"
    /\ Called({ "release_delete" })
    /\ \E o \in Outcomes :
        IF o = "missing"
        THEN /\ pc' = "done"
             /\ result' = "raised"
        ELSE /\ pc' = "tag_delete"
             /\ result' = result
    /\ UNCHANGED encFile
    /\ FinallyFrame

\* _cleanup_github_release, second try block: `git push --delete origin tag`.
TagDelete ==
    /\ pc = "tag_delete"
    /\ Called({ "tag_delete" })
    /\ \E o \in Outcomes :
        IF o = "missing"
        THEN /\ pc' = "done"
             /\ result' = "raised"
        ELSE /\ pc' = "return"
             /\ result' = result
    /\ UNCHANGED encFile
    /\ FinallyFrame

\* The finally block is over: the pending return value reaches the caller.
Return ==
    /\ pc = "return"
    /\ pc' = "done"
    /\ result' = retval
    /\ UNCHANGED << calls, encFile >>
    /\ FinallyFrame

Next ==
    \/ SanitizeAndEncrypt
    \/ SelectUpload
    \/ GitTag
    \/ GitPushTag
    \/ GhReleaseCreate
    \/ GhReleaseUpload
    \/ GitTagDeleteLocal
    \/ GitPushDeleteFailedUpload
    \/ CurlUpload
    \/ TriggerWorkflowRun
    \/ ListRuns
    \/ UrlView
    \/ LocateExit
    \/ StatusFetch
    \/ UnlinkTarget
    \/ DownloadArtifact
    \/ DecryptFile
    \/ RestoreMetadata
    \/ UnlinkEncrypted
    \/ ReleaseDelete
    \/ TagDelete
    \/ Return

Spec == Init /\ [][Next]_vars

\* =========================== two invocations at once against one repository
\* Each invocation runs execute with its own run_uuid (uuid4), its own
\* release tag (temp-upload-<token_hex>) and its own artifact name; the
\* repository's workflow runs, tags and releases are what they share.  One
\* step is one phase of one invocation.

\* run_uuid = str(uuid.uuid4()) of each invocation.
TokenOf(r) == IF r = 1 THEN <<"a", "b">> ELSE <<"b", "a">>

\* tag = f"temp-upload-{secrets.token_hex(8)}" of each invocation.
TagOf(r) == IF r = 1 THEN "temp-upload-1" ELSE "temp-upload-2"

\* The job instance a dispatch creates: the workflow puts the run_uuid input
\* into the run name ("cab" for the first invocation, "bac" for the second).
JobOf(r) == r

\* A step of the two invocations leaves the single invocation alone.
ConcFrame ==
    UNCHANGED << soloVars, watchVars, locateVars >>

\* _upload_via_github_release as a whole: on success the tag and the release
\* exist; on failure the tag is removed by the handler (or was never pushed)
\* or is left behind when a tool is missing, and a created release stays.
ConcUpload(r) ==
    /\ c_pc[r] = "upload"
    /\ \E o \in Outcomes :
        IF o = "ok"
        THEN /\ backendTags' = backendTags \cup { TagOf(r) }
             /\ backendReleases' = backendReleases \cup { TagOf(r) }
             /\ c_pc' = [c_pc EXCEPT ![r] = "trigger"]
        ELSE /\ backendTags' \in
                    IF o = "missing"
                    THEN { backendTags, backendTags \cup { TagOf(r) } }
                    ELSE { backendTags }
             /\ backendReleases' \in
                    { backendReleases, backendReleases \cup { TagOf(r) } }
             /\ c_pc' = [c_pc EXCEPT ![r] = "done"]
    /\ UNCHANGED << c_run_id, c_listing, c_polled, c_downloaded, c_deleted,
                    backendRuns >>
    /\ ConcFrame

\* _trigger_workflow_run: an accepted dispatch creates the job instance.
ConcDispatch(r) ==
    /\ c_pc[r] = "trigger"
    /\ \E o \in Outcomes :
        IF o = "ok"
        THEN /\ backendRuns' = << JobOf(r) >> \o backendRuns
             /\ c_pc' = [c_pc EXCEPT ![r] = "locate"]
        ELSE /\ backendRuns' = backendRuns
             /\ c_pc' = [c_pc EXCEPT ![r] = "release_delete"]
    /\ UNCHANGED << c_run_id, c_listing, c_polled, c_downloaded, c_deleted,
                    backendTags, backendReleases >>
    /\ ConcFrame

\* The locating loop: a list call that matches binds the first id of its
\* output; "timeout" is the loop running out of attempts without a match.
ConcList(r) ==
    /\ c_pc[r] = "locate"
    /\ LET stdout == SelectIds(backendRuns, TokenOf(r)) IN
       \E o \in { "ok", "timeout" } :
        IF o = "ok"
        THEN /\ stdout # <<>>
             /\ c_run_id' = [c_run_id EXCEPT ![r] = Head(stdout)]
             /\ c_listing' = [c_listing EXCEPT ![r] = backendRuns]
             /\ c_pc' = [c_pc EXCEPT ![r] = "watch"]
        ELSE /\ UNCHANGED << c_run_id, c_listing >>
             /\ c_pc' = [c_pc EXCEPT ![r] = "release_delete"]
    /\ UNCHANGED << c_polled, c_downloaded, c_deleted, backendRuns,
                    backendTags, backendReleases >>
    /\ ConcFrame

\* The polling loop: `gh run view <run_id>` until completed.
ConcStatus(r) ==
    /\ c_pc[r] = "watch"
    /\ c_polled' = [c_polled EXCEPT ![r] = @ \cup { c_run_id[r] }]
    /\ \E to \in { "WATCHING", "SUCCEEDED", "FAILED_REMOTE" } :
        c_pc' = [c_pc EXCEPT ![r] =
                    CASE to = "WATCHING" -> "watch"
                      [] to = "SUCCEEDED" -> "download"
                      [] OTHER -> "release_delete"]
    /\ UNCHANGED << c_run_id, c_listing, c_downloaded, c_deleted,
                    backendRuns, backendTags, backendReleases >>
    /\ ConcFrame

\* _download_artifact: `gh run download <run_id> --name <artifact>`; the
\* finally block follows whatever the outcome.
ConcDownload(r) ==
    /\ c_pc[r] = "download"
    /\ c_downloaded' = [c_downloaded EXCEPT ![r] = @ \cup { c_run_id[r] }]
    /\ c_pc' = [c_pc EXCEPT ![r] = "release_delete"]
    /\ UNCHANGED << c_run_id, c_listing, c_polled, c_deleted,
                    backendRuns, backendTags, backendReleases >>
    /\ ConcFrame

\* _cleanup_github_release(release_tag), first try block.
ConcReleaseDelete(r) ==
    /\ c_pc[r] = "release_delete"
    /\ c_deleted' = [c_deleted EXCEPT ![r] = @ \cup { << "release", TagOf(r) >> }]
    /\ \E o \in Outcomes :
        /\ backendReleases' =
               IF o = "ok" THEN backendReleases \ { TagOf(r) }
               ELSE backendReleases
        /\ c_pc' = [c_pc EXCEPT ![r] =
                       IF o = "missing" THEN "done" ELSE "tag_delete"]
    /\ UNCHANGED << c_run_id, c_listing, c_polled, c_downloaded,
                    backendRuns, backendTags >>
    /\ ConcFrame

\* _cleanup_github_release(release_tag), second try block.
ConcTagDelete(r) ==
    /\ c_pc[r] = "tag_delete"
    /\ c_deleted' = [c_deleted EXCEPT ![r] = @ \cup { << "tag", TagOf(r) >> }]
    /\ \E o \in Outcomes :
        backendTags' =
            IF o = "ok" THEN backendTags \ { TagOf(r) } ELSE backendTags
    /\ c_pc' = [c_pc EXCEPT ![r] = "done"]
    /\ UNCHANGED << c_run_id, c_listing, c_polled, c_downloaded,
                    backendRuns, backendReleases >>
    /\ ConcFrame

InitTwoRuns ==
    /\ Init
    /\ run_uuid = << "a", "b" >>
    /\ file_size = << 0, 1000000 >>

NextTwoRuns ==
    \/ \E r \in Runs : ConcUpload(r)
    \/ \E r \in Runs : ConcDispatch(r)
    \/ \E r \in Runs : ConcList(r)
    \/ \E r \in Runs : ConcStatus(r)
    \/ \E r \in Runs : ConcDownload(r)
    \/ \E r \in Runs : ConcReleaseDelete(r)
    \/ \E r \in Runs : ConcTagDelete(r)

SpecTwoRuns == InitTwoRuns /\ [][NextTwoRuns]_vars

\* ================================ the polling loop, snapshot by snapshot
\* What `gh run view --json status,conclusion,jobs` can answer with: the
\* jobs list may be absent, empty or present; the steps list of the first job
\* likewise; a present steps list has a step in progress or has none.
Details ==
    { [jobs |-> "absent", steps |-> "absent", active |-> FALSE],
      [jobs |-> "empty", steps |-> "absent", active |-> FALSE],
      [jobs |-> "present", steps |-> "absent", active |-> FALSE],
      [jobs |-> "present", steps |-> "empty", active |-> FALSE],
      [jobs |-> "present", steps |-> "present", active |-> FALSE],
      [jobs |-> "present", steps |-> "present", active |-> TRUE] }

Snapshots ==
    { [kind |-> k, status |-> "none", conclusion |-> "none",
       jobs |-> "absent", steps |-> "absent", active |-> FALSE] :
          k \in { "err", "badjson", "missing" } }
    \cup
    { [kind |-> "ok", status |-> s, conclusion |-> c,
       jobs |-> d.jobs, steps |-> d.steps, active |-> d.active] :
          s \in Statuses, c \in Conclusions, d \in Details }

\* current_step_name: "..." unless the status is in_progress, data.get("jobs")
\* is a non-empty list and job.get("steps", []) has a step in progress.
StepLabel(data) ==
    IF data.status = "in_progress" /\ data.jobs = "present"
    THEN IF data.steps = "present" /\ data.active THEN "name" ELSE "..."
    ELSE "..."

\* Does the code that looks for the step in progress raise?  data.get and
\* job.get("steps", []) accept a missing key, the for loop an empty list.
LabelRaises_nosteps(data) ==
    data.status = "in_progress" /\ data.jobs = "present"
        /\ data.steps = "absent"

LabelRaises(data) == FALSE

\* One iteration of `while True`: the fetch, the test on completed, then the
\* step label and the status line, then the sleep.
WatchStep(snapshots) ==
    /\ w_state = "WATCHING"
    /\ \E data \in snapshots :
        LET res == [kind |-> data.kind, status |-> data.status,
                    conclusion |-> data.conclusion]
            to == PollTransition(res)
        IN  /\ w_data' = data
            /\ IF to = "WATCHING" /\ data.kind = "ok"
               THEN IF LabelRaises(data)
                    THEN /\ w_state' = "RAISE"
                         /\ w_label' = "none"
                    ELSE /\ w_state' = to
                         /\ w_label' = StepLabel(data)
               ELSE /\ w_state' = to
                    /\ w_label' = "none"
    /\ w_polls' = IF w_polls <= MaxPolls THEN w_polls + 1 ELSE w_polls
    /\ UNCHANGED << soloVars, concVars, locateVars >>

WatchIteration == WatchStep(Snapshots)

InitWatch ==
    /\ Init
    /\ run_uuid = << "a", "b" >>
    /\ file_size = << 0, 1000000 >>

NextWatch == WatchIteration

SpecWatch == InitWatch /\ [][NextWatch]_vars

\* ======================= the locating loop against a busy backend
\* per_page=20 in the URL of the list call: the backend answers with the 20
\* most recent job instances of the workflow.
per_page == 20

\* Upper bound on the job instances dispatched after the one of this run.
MaxNewer == 20

Page_all(runs) == runs

Page(runs) ==
    SubSeq(runs, 1, IF Len(runs) < per_page THEN Len(runs) ELSE per_page)

\* The job instances of the workflow, most recent first: n instances of
\* other dispatches (name "ccc"), then the one of this run if it exists.
BackendRuns(n, own) ==
    [i \in 1 .. n |-> 4] \o own

\* The dispatched job instance of this run shows up on the backend.
JobAppears ==
    /\ l_state = "LOCATING"
    /\ ~l_present
    /\ l_present' = TRUE
    /\ UNCHANGED << l_attempt, l_run_id, l_state, l_newer, l_last, l_lists >>
    /\ UNCHANGED << soloVars, concVars, watchVars >>

\* Somebody else dispatches the same workflow after this run did.
OtherDispatch ==
    /\ l_state = "LOCATING"
    /\ l_present
    /\ l_newer < MaxNewer
    /\ l_newer' = l_newer + 1
    /\ UNCHANGED << l_attempt, l_run_id, l_state, l_present, l_last, l_lists >>
    /\ UNCHANGED << soloVars, concVars, watchVars >>

\* One iteration of the locating loop: the list call, on a match the URL
\* lookup and `break` (skipped when the lookup raises something other than
\* CalledProcessError), else the sleep; after the last iteration, or after
\* the break, `if not run_id`.
LocateIteration ==
    /\ l_state = "LOCATING"
    /\ \E o \in { "ok", "err", "raise" }, u \in Outcomes :
        LET runs == BackendRuns(l_newer,
                                IF l_present THEN << JobOf(1) >> ELSE << >>)
            stdout == SelectIds(Page(runs), TokenOf(1))
            match == o = "ok" /\ stdout # << >>
            broke == match /\ u # "missing"
            id == IF match THEN Head(stdout) ELSE l_run_id
        IN  /\ l_last' = [list |-> o, url |-> IF match THEN u ELSE "none"]
            /\ l_run_id' = id
            /\ l_state' =
                   IF broke \/ ~HasNextAttempt(l_attempt)
                   THEN IF id # 0 THEN "WATCHING" ELSE "LOCATE_TIMEOUT"
                   ELSE "LOCATING"
            /\ l_attempt' =
                   IF broke \/ ~HasNextAttempt(l_attempt)
                   THEN l_attempt ELSE l_attempt + 1
    /\ l_lists' = l_lists + 1
    /\ UNCHANGED << l_present, l_newer >>
    /\ UNCHANGED << soloVars, concVars, watchVars >>

InitLocate ==
    /\ Init
    /\ run_uuid = << "a", "b" >>
    /\ file_size = << 0, 1000000 >>

NextLocate ==
    \/ JobAppears
    \/ OtherDispatch
    \/ LocateIteration

SpecLocate == InitLocate /\ [][NextLocate]_vars

\* ============================ _monitor_workflow_run: locate, then watch
\* The polling loop starts once the locating loop has bound an id.
\* Here the snapshots carry no jobs list.
PlainSnapshots == { data \in Snapshots : data.jobs = "absent" }

MonitorWatch ==
    /\ l_state = "WATCHING"
    /\ WatchStep(PlainSnapshots)

\* The fetch of this iteration answers with a completed snapshot.
CompletedSnapshot ==
    /\ MonitorWatch
    /\ w_data'.kind = "ok"
    /\ w_data'.status = "completed"

NextMonitor ==
    \/ JobAppears
    \/ LocateIteration
    \/ MonitorWatch

\* The process keeps running its loops; the backend eventually answers a
\* status fetch with a completed snapshot.
SpecMonitorFair ==
    /\ InitLocate
    /\ [][NextMonitor]_vars
    /\ WF_vars(LocateIteration)
    /\ WF_vars(MonitorWatch)
    /\ SF_vars(CompletedSnapshot)

\* The same without the assumption on the backend.
SpecMonitorNoBackendFairness ==
    /\ InitLocate
    /\ [][NextMonitor]_vars
    /\ WF_vars(LocateIteration)
    /\ WF_vars(MonitorWatch)

TypeOK ==
    /\ pc \in { "prepare", "size", "git_tag", "git_push", "release_create",
                "release_upload", "tag_delete_local",
                "tag_delete_failed_upload", "curl_upload", "trigger",
                "locate", "url_view", "locate_exit", "watch", "download",
                "download_call",
                "decrypt", "restore", "finally", "release_delete",
                "tag_delete", "return", "done" }
    /\ run_id \in { 0 } \cup RunIds
    /\ attempt \in 0 .. max_find_attempts
    /\ result \in { "pending", "None", "path", "raised" }

\* ================================================================ properties
Finished == pc = "done"

\* The job instances whose name contains a token, read off the job table.
Matching(t) == IF t = <<"a", "b">> THEN { 1, 3 } ELSE { 2, 3 }

RemoteCallKinds ==
    { "git_push", "release_create", "release_upload", "tag_delete",
      "curl_upload", "dispatch", "list", "url_view", "status", "download",
      "release_delete" }

\* C1: once the selector has run, the release-asset channel was picked iff
\* the size is below 2^31, the direct-link channel iff it is at least 2^31
\* and below 2^32, and the run was rejected iff it is at least 2^32; only the
\* picked channel's upload is ever called.
C1_SelectorThresholds ==
    channel # "none" =>
        /\ (channel = "release") <=> (file_size[1] < 2)
        /\ (channel = "tempsh") <=> (file_size[1] >= 2 /\ file_size[1] < 4)
        /\ (channel = "reject") <=> (file_size[1] >= 4)
        /\ calls["git_tag"] > 0 => channel = "release"
        /\ calls["curl_upload"] > 0 => channel = "tempsh"
        /\ pc \in { "git_tag", "curl_upload" } =>
               pc = (IF channel = "release" THEN "git_tag" ELSE "curl_upload")

C1_Witness ==
    /\ file_size = <<2, 0>>
    /\ channel = "tempsh"
    /\ calls["curl_upload"] = 1

\* C2: a run that obtained a release tag has attempted the release deletion
\* and the tag deletion when execute is over.
C2_CleanupBothOnEveryExit ==
    (Finished /\ release_tag # "none") =>
        /\ calls["release_delete"] >= 1
        /\ calls["tag_delete"] >= 1

\* C3: the job id the locator holds, and with which it watches, fetches
\* status and downloads, always names a job instance whose name contains the
\* run's correlation token.
C3_LocatorBindsOnlyMatching ==
    /\ run_id # 0 => run_id \in Matching(run_uuid)
    /\ (state \in { "WATCHING", "SUCCEEDED", "FAILED_REMOTE" }
           \/ calls["status"] > 0 \/ calls["download"] > 0)
          => run_id \in Matching(run_uuid)

C3_Witness ==
    /\ state = "WATCHING"
    /\ Len(listing) = 2
    /\ listing[1] \notin Matching(run_uuid)
    /\ run_id = listing[2]

\* C4: a status fetch that ends in a transient error leaves the poller in
\* WATCHING with nothing reported, and a completed/success snapshot ends in
\* SUCCEEDED, however many transient errors came before it.
C4_TransientErrorsAbsorbed ==
    [][ (pc = "watch" /\ calls'["status"] = calls["status"] + 1) =>
            /\ lastStatus'.kind \in { "err", "badjson" } =>
                   /\ pc' = "watch"
                   /\ state' = "WATCHING"
                   /\ run_id' = run_id
                   /\ failure' = "none"
                   /\ phaseRes' = phaseRes
            /\ (lastStatus'.kind = "ok" /\ lastStatus'.status = "completed"
                    /\ lastStatus'.conclusion = "success") =>
                   /\ state' = "SUCCEEDED"
                   /\ pc' = "download"
                   /\ failure' = "none"
      ]_vars

C4_Witness ==
    /\ state = "SUCCEEDED"
    /\ transients >= 2
    /\ calls["status"] = transients + 1
    /\ failure = "none"

\* C5: the locator makes at most 24 list calls, and when nothing matched it
\* reports LocateTimeout, and nothing else, after exactly 24 of them.
C5_LocateTimeoutAfterExactly24 ==
    /\ calls["list"] <= 24
    /\ (pc = "locate_exit" /\ run_id = 0) => calls["list"] = 24
    /\ state = "LOCATE_TIMEOUT" =>
           /\ calls["list"] = 24
           /\ failure = "LocateTimeout"
    /\ (state = "LOCATING" /\ run_id = 0) =>
           /\ pc \in { "locate", "locate_exit" }
           /\ failure = "none"

C5_Witness ==
    /\ state = "LOCATE_TIMEOUT"
    /\ listKinds = { "empty", "err", "raise" }
    /\ calls["list"] = 24

\* C6: a phase is entered only after every earlier phase reported success:
\* no upload call without a prepared payload, no dispatch without an upload,
\* no list call without a dispatch, no download unless watching ended in
\* SUCCEEDED, no decrypt without a download, no metadata restore without a
\* decrypt.
C6_PhasesShortCircuit ==
    /\ (calls["git_tag"] > 0 \/ calls["curl_upload"] > 0) =>
           phaseRes["prepare"] = "ok"
    /\ calls["dispatch"] > 0 => phaseRes["upload"] = "ok"
    /\ (calls["list"] > 0 \/ state # "IDLE") => phaseRes["trigger"] = "ok"
    /\ calls["status"] > 0 => run_id # 0
    /\ calls["download"] > 0 =>
           (state = "SUCCEEDED" /\ phaseRes["monitor"] = "ok")
    /\ calls["decrypt"] > 0 => phaseRes["download"] = "ok"
    /\ calls["restore"] > 0 => phaseRes["decrypt"] = "ok"
    /\ retval = "path" => phaseRes["decrypt"] = "ok"

C6_Witness ==
    /\ Finished
    /\ phaseRes["download"] = "fail"
    /\ calls["decrypt"] = 0
    /\ calls["restore"] = 0
    /\ calls["release_delete"] = 1
    /\ calls["tag_delete"] = 1

\* C7: execute ends by returning the decrypted path or the failure signal;
\* no exception reaches its caller.
C7_NeverRaises ==
    Finished => result \in { "None", "path" }

\* C8: at most one dispatch call is made; after a failed dispatch the run is
\* halted as TriggerRejected, does not return a path, and makes no list, URL
\* or status call.
C8_SingleDispatchNoRetry ==
    /\ calls["dispatch"] <= 1
    /\ phaseRes["trigger"] = "fail" =>
           /\ failure = "TriggerRejected"
           /\ retval = "None"
           /\ result # "path"
           /\ state = "IDLE"
           /\ calls["list"] = 0
           /\ calls["url_view"] = 0
           /\ calls["status"] = 0
           /\ calls["download"] = 0
           /\ pc \in { "finally", "release_delete", "tag_delete", "return", "done" }

C8_Witness ==
    /\ Finished
    /\ calls["dispatch"] = 1
    /\ phaseRes["trigger"] = "fail"
    /\ result = "None"

\* C9: a run whose payload is 2^32 bytes or more makes no external call of
\* any kind, and once the payload is prepared and measured it is halted as
\* PayloadTooLarge and returns the failure signal.
C9_TooLargeNoRemoteCalls ==
    file_size[1] >= 4 =>
        /\ \A k \in CallKinds : calls[k] = 0
        /\ ~remoteTag /\ ~remoteRelease
        /\ (phaseRes["prepare"] = "ok" /\ pc # "size") =>
               /\ failure = "PayloadTooLarge"
               /\ pc \in { "finally", "return", "done" }
               /\ result \in { "pending", "None" }

C9_Witness ==
    /\ Finished
    /\ file_size = <<2793, 1039085568>>
    /\ failure = "PayloadTooLarge"
    /\ result = "None"

\* C10: when the run is over, the deletion of every remote release and of
\* every remote tag it created has been attempted.
C10_CreatedObjectsDeleted ==
    Finished =>
        /\ remoteRelease => calls["release_delete"] >= 1
        /\ remoteTag => calls["tag_delete"] >= 1

\* C11: what execute hands to its caller is the value that was pending when
\* the cleanup began, whatever the two deletions did.
C11_CleanupNeverChangesOutcome ==
    Finished => result = retval

\* C12: once the release deletion of the cleanup has been attempted, the tag
\* deletion is attempted as well before the run ends.
C12_TagDeletionIndependent ==
    (Finished /\ calls["release_delete"] >= 1) => calls["tag_delete"] >= 1

\* The waits the retriever has made after its first n failed attempts.
Backoff(n) == SubSeq(<<5, 10>>, 1, n)

\* C13: the retriever makes at most 3 download calls; a successful call ends
\* it with no further call; after the k-th call exits with an error, k < 3,
\* it has waited 5 then 10 seconds and goes on; after the 3rd error exit it
\* reports ArtifactUnavailable having waited only twice.
C13_DownloadRetryBackoff ==
    /\ dl_attempt <= 3
    /\ calls["download"] =
           IF pc = "download_call" THEN dl_attempt - 1 ELSE dl_attempt
    /\ phaseRes["download"] # "none" => pc \notin { "download", "download_call" }
    /\ phaseRes["download"] = "ok" => dl_slept = Backoff(dl_attempt - 1)
    /\ (pc = "download" /\ dl_attempt >= 1) =>
           (dl_attempt < 3 /\ dl_slept = Backoff(dl_attempt))
    /\ pc = "download_call" => dl_slept = Backoff(dl_attempt - 1)
    /\ failure = "ArtifactUnavailable" =>
           (dl_attempt = 3 /\ dl_slept = <<5, 10>>)
    /\ failure = "ToolMissing" => dl_slept = Backoff(dl_attempt - 1)

C13_Witness ==
    /\ Finished
    /\ failure = "ArtifactUnavailable"
    /\ calls["download"] = 3
    /\ dl_slept = <<5, 10>>

\* C14: every download call is made right after an unlink of the target
\* path, so no file lies there when the call is made.
C14_UnlinkBeforeEachDownload ==
    /\ pc = "download_call" => ~dlFile
    /\ calls["unlink_target"] = dl_attempt
    /\ calls["download"] <= calls["unlink_target"]

C14_Witness ==
    /\ phaseRes["download"] = "ok"
    /\ dlFile
    /\ dl_attempt = 2
    /\ calls["unlink_target"] = 2
    /\ calls["download"] = 2

\* C15: a snapshot with status completed ends the polling at once, in
\* SUCCEEDED when the conclusion is success (the run id goes on to the
\* download) and in FAILED_REMOTE for every other conclusion, null included
\* (None is returned and nothing is downloaded); a snapshot with any other
\* status leaves the poller in WATCHING; no status call follows the end.
C15_CompletedEndsPolling ==
    /\ [](state = "FAILED_REMOTE" =>
              (calls["download"] = 0 /\ retval = "None" /\ result # "path"))
    /\ [][ (pc = "watch" /\ calls'["status"] = calls["status"] + 1
                /\ lastStatus'.kind = "ok") =>
               IF lastStatus'.status = "completed"
               THEN IF lastStatus'.conclusion = "success"
                    THEN /\ state' = "SUCCEEDED"
                         /\ pc' = "download"
                         /\ run_id' = run_id
                    ELSE /\ state' = "FAILED_REMOTE"
                         /\ pc' = "finally"
                         /\ retval' = "None"
               ELSE /\ state' = "WATCHING"
                    /\ pc' = "watch"
         ]_vars
    /\ [][ (state = "SUCCEEDED" \/ state = "FAILED_REMOTE") =>
               (calls'["status"] = calls["status"])
         ]_vars

C15_Witness ==
    /\ Finished
    /\ state = "FAILED_REMOTE"
    /\ lastStatus.status = "completed"
    /\ lastStatus.conclusion = "null"
    /\ calls["download"] = 0
    /\ result = "None"

\* C18: a failed upload ends the run without trying the other channel: the
\* run that took the release-asset channel never calls curl, the run that
\* took the direct-link channel never makes a release call, and after a
\* failed upload no dispatch, list, status or download call is made and
\* None is returned.
C18_FailedUploadTerminalNoFallback ==
    /\ channel = "release" => calls["curl_upload"] = 0
    /\ channel = "tempsh" =>
           /\ calls["git_tag"] = 0
           /\ calls["git_push"] = 0
           /\ calls["release_create"] = 0
           /\ calls["release_upload"] = 0
    /\ phaseRes["upload"] = "fail" =>
           /\ dispatched = <<>>
           /\ calls["dispatch"] = 0
           /\ calls["list"] = 0
           /\ calls["status"] = 0
           /\ calls["download"] = 0
           /\ retval = "None"
           /\ pc \in { "finally", "release_delete", "tag_delete", "return",
                       "done" }

C18_Witness ==
    /\ Finished
    /\ channel = "release"
    /\ failure = "UploadFailed"
    /\ calls["release_upload"] = 1
    /\ calls["curl_upload"] = 0
    /\ calls["dispatch"] = 0

\* C19: at most one upload channel is used per run; every dispatch sent
\* carries the correlation token, the artifact name, the serialized options
\* and exactly one of release tag and upload URL, namely the one the upload
\* returned; no dispatch carries neither or both.
C19_DispatchCarriesExactlyOneChannel ==
    /\ ~(release_tag # "none" /\ upload_url # "none")
    /\ ~(calls["git_tag"] > 0 /\ calls["curl_upload"] > 0)
    /\ Len(dispatched) = calls["dispatch"]
    /\ \A i \in 1 .. Len(dispatched) :
           LET cmd == dispatched[i] IN
           /\ (cmd.release_tag # "none") # (cmd.upload_url # "none")
           /\ cmd.release_tag = release_tag
           /\ cmd.upload_url = upload_url
           /\ cmd.run_uuid = run_uuid
           /\ cmd.output_filename_base = output_filename_base
           /\ cmd.ffmpeg_options = ffmpeg_options_json

C19_Witness ==
    /\ Len(dispatched) = 1
    /\ dispatched[1].upload_url = "url"
    /\ dispatched[1].release_tag = "none"
    /\ channel = "tempsh"
    /\ phaseRes["trigger"] = "ok"

\* C20: the remote job id is absent until a list call finds a match, and
\* once bound it never changes: no later step of the run, a later list call
\* after an exception in the locating loop included, gives it another value.
C20_RunIdBoundOnce ==
    /\ [](run_id = 0 => (calls["status"] = 0 /\ calls["download"] = 0))
    /\ [][ run_id # 0 => run_id' = run_id ]_vars
    /\ [][ run_id' # run_id =>
               (pc = "locate" /\ calls'["list"] = calls["list"] + 1) ]_vars

\* The end-to-end run of C16: 1,000,000 bytes through the release-asset
\* channel, a match at the first list call, two snapshots that are not
\* completed and then completed/success with no transient error, a download
\* that succeeds at the first attempt and a decryption that succeeds.
C16_Scenario ==
    /\ file_size = <<0, 1000000>>
    /\ channel = "release"
    /\ phaseRes["upload"] = "ok"
    /\ calls["list"] = 1
    /\ run_id # 0
    /\ calls["status"] = 3
    /\ transients = 0
    /\ state = "SUCCEEDED"
    /\ calls["download"] = 1
    /\ phaseRes["download"] = "ok"
    /\ phaseRes["decrypt"] = "ok"

\* C16: when the end-to-end run is over, execute has returned the path of
\* the decrypted file and both cleanup deletions, of the release and of the
\* tag, have been attempted.
C16_EndToEndReturnsPathAndCleansUp ==
    (Finished /\ C16_Scenario) =>
        /\ result = "path"
        /\ decFile
        /\ calls["release_delete"] = 1
        /\ calls["tag_delete"] = 1

\* C17: with two invocations at once, under every interleaving of their
\* calls, each invocation binds, polls and downloads only the job instance
\* that carries its own token, names only its own release and tag in its
\* deletions, and a release or tag of the other invocation disappears from
\* the repository only through that invocation's own deletion.
C17_ConcurrentRunsIsolated ==
    \A r \in Runs :
        /\ c_run_id[r] # 0 =>
               /\ c_run_id[r] = JobOf(r)
               /\ c_run_id[r] \in Matching(TokenOf(r))
               /\ \A q \in Runs \ { r } :
                      c_run_id[r] \notin Matching(TokenOf(q))
        /\ c_polled[r] \subseteq { JobOf(r) }
        /\ c_downloaded[r] \subseteq { JobOf(r) }
        /\ c_deleted[r] \subseteq
               { << "release", TagOf(r) >>, << "tag", TagOf(r) >> }
        /\ (c_pc[r] \in { "trigger", "locate", "watch", "download",
                          "release_delete" }) =>
               /\ TagOf(r) \in backendReleases
               /\ TagOf(r) \in backendTags
        /\ c_pc[r] = "tag_delete" => TagOf(r) \in backendTags

C17_Witness ==
    /\ \A r \in Runs : c_pc[r] = "done"
    /\ c_listing[1] = << 2, 1 >>
    /\ c_listing[2] = << 2, 1 >>
    /\ c_downloaded[1] = { 1 }
    /\ c_downloaded[2] = { 2 }
    /\ c_deleted[1] = { << "release", TagOf(1) >>, << "tag", TagOf(1) >> }
    /\ c_deleted[2] = { << "release", TagOf(2) >>, << "tag", TagOf(2) >> }
    /\ backendTags = {}
    /\ backendReleases = {}

C22_FirstOfSeveralMatchesBound ==
    /\ [][ (pc = "locate" /\ pc' = "url_view"
                /\ Len(SelectIds(listing', run_uuid)) >= 2) =>
               /\ run_id' = Head(SelectIds(listing', run_uuid))
               /\ failure' = "none"
         ]_vars
    /\ [][ (run_id # 0 /\ Len(SelectIds(listing, run_uuid)) >= 2) =>
               (run_id' = run_id /\ state' # "LOCATE_TIMEOUT")
         ]_vars

\* C23: when the job instance of the run exists on the backend and a list
\* call succeeds, that call binds the instance and the locator enters
\* WATCHING, whatever the number of job instances dispatched after it;
\* once an id is bound no further list call is made.
C23_ExistingJobBoundAtOnce ==
    /\ [][ (l_state = "LOCATING" /\ l_lists' = l_lists + 1
                /\ l_present /\ l_last'.list = "ok") =>
               /\ l_run_id' = JobOf(1)
               /\ l_state' = "WATCHING"
               /\ l_attempt' = l_attempt
         ]_vars
    /\ [][ l_run_id # 0 => l_lists' = l_lists ]_vars

\* The monitor has ended: locating timed out, or the polling loop was left.
MonitorEnded ==
    l_state = "LOCATE_TIMEOUT" \/ (l_state = "WATCHING" /\ w_state # "WATCHING")

\* C24: the locating loop makes at most 24 list calls and always ends; the
\* polling loop has no bound and is in SUCCEEDED or FAILED_REMOTE exactly
\* when the last status fetch answered with a completed snapshot; when the
\* backend eventually answers with a completed snapshot the monitor
\* eventually ends.
C24_LocateBoundedWatchFair ==
    /\ [](l_lists <= max_find_attempts /\ l_attempt <= max_find_attempts)
    /\ <>(l_state # "LOCATING")
    /\ []((w_state \in { "SUCCEEDED", "FAILED_REMOTE" }) <=>
              (w_polls > 0 /\ w_data.kind = "ok"
                  /\ w_data.status = "completed"))
    /\ [](w_polls > 0 => l_state = "WATCHING")
    /\ <>MonitorEnded

C24_Witness ==
    /\ l_state = "WATCHING"
    /\ l_lists = max_find_attempts
    /\ w_polls = MaxPolls + 1
    /\ w_state = "SUCCEEDED"

\* Without the assumption on the backend the polling loop need not end.
C24_EndsWithoutBackendFairness == <>MonitorEnded

\* C25: the cleanup of a release tag attempts the release deletion first
\* and the tag deletion second, and nothing is retried: over a whole run the
\* remote release deletion and the remote tag deletion are each attempted at
\* most once, the tag deletion of the failed-upload handler included.
C25_CleanupOrderedNoRetry ==
    /\ [](calls["release_delete"] <= 1 /\ calls["tag_delete"] <= 1)
    /\ [](pc = "release_delete" =>
              (calls["release_delete"] = 0 /\ calls["tag_delete"] = 0))
    /\ [](pc = "tag_delete" =>
              (calls["release_delete"] = 1 /\ calls["tag_delete"] = 0))
    /\ [][ calls'["release_delete"] # calls["release_delete"] =>
               (pc = "release_delete" /\ calls'["tag_delete"] = 0) ]_vars
    /\ [][ (calls'["tag_delete"] # calls["tag_delete"]
                /\ release_tag # "none") =>
               (pc = "tag_delete" /\ calls["release_delete"] = 1) ]_vars

C25_Witness ==
    /\ Finished
    /\ failure = "RemoteJobFailed"
    /\ calls["release_delete"] = 1
    /\ calls["tag_delete"] = 1
    /\ result = "None"

\* C26: a run that took the direct-link channel, or that holds no release
\* tag, makes no release deletion and no tag deletion in its final cleanup,
\* whatever the exit path, a rejected dispatch included; without a release
\* tag the only tag deletion is the one of the failed-upload handler.
C26_NoTagNoRemoteCleanup ==
    /\ [](channel = "tempsh" =>
              (calls["release_delete"] = 0 /\ calls["tag_delete"] = 0))
    /\ [](release_tag = "none" =>
              /\ calls["release_delete"] = 0
              /\ pc \notin { "release_delete", "tag_delete" })
    /\ [][ (release_tag = "none"
                /\ calls'["tag_delete"] # calls["tag_delete"]) =>
               pc = "tag_delete_failed_upload" ]_vars
    /\ [][ (pc = "finally" /\ release_tag = "none") => pc' = "return" ]_vars

C26_Witness ==
    /\ Finished
    /\ channel = "tempsh"
    /\ failure = "TriggerRejected"
    /\ calls["dispatch"] = 1
    /\ calls["list"] = 0
    /\ calls["release_delete"] = 0
    /\ calls["tag_delete"] = 0

\* C27: after a successful decryption restore_metadata is called exactly
\* once, with the original input as source and the decrypted file as target,
\* and whatever its outcome (error exit and missing tool included) execute
\* returns the path of the decrypted file.
C27_RestoreFailureTolerated ==
    /\ Len(restored) = calls["restore"]
    /\ Len(restored) <= 1
    /\ \A i \in 1 .. Len(restored) :
           /\ restored[i].source_path = "video_path"
           /\ restored[i].target_path = "decrypted_file_path"
    /\ (phaseRes["decrypt"] = "ok" /\ pc # "restore") => Len(restored) = 1
    /\ phaseRes["restore"] # "none" => (retval = "path" /\ decFile)
    /\ (Finished /\ phaseRes["restore"] # "none") => result = "path"

\* C28: a list call that binds nothing, whether it exited with an error,
\* raised or printed nothing, spends exactly one attempt and one fixed wait,
\* changes neither the state nor the bound id, and reports nothing; locating
\* goes on to the next attempt unless this was the last one, and the only
\* failure the locator reports is LocateTimeout, after 24 list calls.
C28_FailedListCallAbsorbed ==
    /\ [][ (pc = "locate" /\ pc' # "url_view") =>
               /\ calls'["list"] = calls["list"] + 1
               /\ calls'["sleep_find"] = calls["sleep_find"] + 1
               /\ IF attempt < max_find_attempts
                  THEN attempt' = attempt + 1 /\ pc' = "locate"
                  ELSE attempt' = attempt /\ pc' = "locate_exit"
               /\ run_id' = run_id
               /\ state' = "LOCATING"
               /\ failure' = "none"
               /\ phaseRes' = phaseRes
               /\ retval' = retval
         ]_vars
    /\ []((phaseRes["monitor"] = "fail" /\ calls["status"] = 0) =>
              /\ failure = "LocateTimeout"
              /\ state = "LOCATE_TIMEOUT"
              /\ run_id = 0
              /\ calls["list"] = max_find_attempts
              /\ calls["sleep_find"] = max_find_attempts)
    /\ [](pc \in { "locate", "url_view", "locate_exit" } => failure = "none")

C28_Witness ==
    /\ Finished
    /\ failure = "LocateTimeout"
    /\ listKinds = { "err", "raise" }
    /\ calls["list"] = 24
    /\ calls["sleep_find"] = 24
    /\ result = "None"

\* C29: the encrypted payload is written by the preparation phase only; once
\* the finally block has passed its unlink, on the way to the release cleanup,
\* to the return or to the exception of the cleanup, the payload does not
\* exist, and no release or tag deletion of the cleanup ran while it did.
C29_PayloadRemovedBeforeCleanup ==
    /\ [](pc \in { "release_delete", "tag_delete", "return", "done" } => ~encFile)
    /\ [](Finished => ~encFile)
    /\ [](calls["release_delete"] > 0 => ~encFile)
    /\ [][ (~encFile /\ encFile') => pc = "prepare" ]_vars
    /\ [][ (encFile /\ ~encFile') => (pc = "finally" /\ calls' = calls) ]_vars
    /\ []((phaseRes["prepare"] = "ok" /\
           pc \notin { "release_delete", "tag_delete", "return", "done" }) => encFile)

C29_Witness ==
    /\ Finished
    /\ result = "raised"
    /\ failure = "none"
    /\ phaseRes["prepare"] = "ok"
    /\ phaseRes["decrypt"] = "ok"
    /\ calls["release_delete"] = 1
    /\ calls["tag_delete"] = 1
    /\ ~encFile

====
